---- MODULE Spec2Model ----
(***************************************************************************)
(* State-machine model of src/src/App.tsx: the App component's three       *)
(* pieces of UI state, its three event handlers, the Scene composer with   *)
(* its four presenters, and the Suspense boundary around the Scene whose   *)
(* texture and model loads are resolved by the external loaders.           *)
(*                                                                         *)
(* Strings that the code inspects (media types, colour styles) are         *)
(* sequences of one-character strings, so that matching and parsing are    *)
(* computed rather than assumed.                                           *)
(***************************************************************************)
EXTENDS Integers, Sequences, FiniteSets, TLC

\* Number of object URLs the browser hands out before the file picker is
\* no longer exercised (URL.createObjectURL itself is unbounded).
MaxUploads == 2

\* textureUrl: string | null.  Object URLs are numbered 1, 2, ...; 0 is null.
Null == 0
Urls == 1..MaxUploads

\* ---------------------------------------------------------------- strings
IMAGE == <<"i", "m", "a", "g", "e">>
ImagePng == IMAGE \o <<"/", "p", "n", "g">>
TextPlain == <<"t", "e", "x", "t", "/", "p", "l", "a", "i", "n">>
CdImage == <<"a", "p", "p", "l", "i", "c", "a", "t", "i", "o", "n", "/", "x", "-", "c", "d", "-">> \o IMAGE
EmptyType == << >>

\* What the file picker can deliver as event.target.files?.[0]: nothing, or
\* a file with the media type the browser derived for it.
NoFile == [present |-> FALSE, type |-> EmptyType]
FileOf(t) == [present |-> TRUE, type |-> t]
Files == {NoFile} \cup {FileOf(t) : t \in {ImagePng, TextPlain, CdImage}}

\* file.type.match("image.*"): the string argument becomes the unanchored
\* regular expression /image.*/, which matches iff "image" occurs somewhere
\* in the type (".*" matches any, possibly empty, rest).
MatchImage(t) == \E i \in 1..Len(t) : i + 4 =< Len(t) /\ SubSeq(t, i, i + 4) = IMAGE

\* ---------------------------------------------------------------- colours
White == <<"w", "h", "i", "t", "e">>
Slate == <<"#", "e", "2", "e", "8", "f", "0">>
Charcoal == <<"#", "2", "2", "2", "2", "2", "2">>
HexWhite == <<"#", "f", "f", "f", "f", "f", "f">>
NoColor == << >>

HexDigit(c) ==
    CASE c = "0" -> 0 [] c = "1" -> 1 [] c = "2" -> 2 [] c = "3" -> 3
      [] c = "4" -> 4 [] c = "5" -> 5 [] c = "6" -> 6 [] c = "7" -> 7
      [] c = "8" -> 8 [] c = "9" -> 9 [] c = "a" -> 10 [] c = "b" -> 11
      [] c = "c" -> 12 [] c = "d" -> 13 [] c = "e" -> 14 [] c = "f" -> 15

\* The colour a material shows for a colour prop: a #rrggbb style is parsed,
\* the name "white" is looked up, and a material without a colour prop keeps
\* the material's default, which is white.
ColorValue(c) ==
    IF c = NoColor \/ c = White THEN <<255, 255, 255>>
    ELSE <<16 * HexDigit(c[2]) + HexDigit(c[3]),
           16 * HexDigit(c[4]) + HexDigit(c[5]),
           16 * HexDigit(c[6]) + HexDigit(c[7])>>

\* -------------------------------------------------------------- materials
\* A texture prop is THREE.Texture | null: << >> is null, <<u>> is the
\* handle the loader resolved from object URL u.
NullTexture == << >>
useTexture(u) == <<u>>

\* One <meshStandardMaterial>: whether it is given a map prop and a color
\* prop, and their values.
TexturedMaterial(texture) ==
    [hasMap |-> TRUE, map |-> texture, hasColor |-> FALSE, color |-> NoColor]
FlatMaterial(c) ==
    [hasMap |-> FALSE, map |-> NullTexture, hasColor |-> TRUE, color |-> c]
TintedTexturedMaterial(texture, c) ==
    [hasMap |-> TRUE, map |-> texture, hasColor |-> TRUE, color |-> c]

BoxTone(darkMode) == IF darkMode THEN White ELSE Slate
ShirtToneWhite(darkMode) == IF darkMode THEN White ELSE HexWhite

ShirtTone(darkMode) == IF darkMode THEN Charcoal ELSE HexWhite

BoxSlots == {"material-0", "material-1", "material-2", "material-3", "material-4", "material-5"}
CylinderSlots == {"material-0", "material-1", "material-2"}
MugMeshes == {"Object_2"}
ShirtFront == "Long_Sleeve_T-Shirt_Bahan_Dasar_FRONT_2657_0"
ShirtMeshes == {ShirtFront, "Long_Sleeve_T-Shirt_Bahan_Dasar_FRONT_2657_0_1",
                "Long_Sleeve_T-Shirt_Material2868_0", "Long_Sleeve_T-Shirt_Material2868_0_1"}

BoxTwoTextured(texture, darkMode) ==
    [s \in BoxSlots |-> IF s \in {"material-4", "material-5"} THEN TexturedMaterial(texture)
                        ELSE FlatMaterial(BoxTone(darkMode))]

Box(texture, darkMode) ==
    [s \in BoxSlots |-> IF s = "material-4" THEN TexturedMaterial(texture)
                        ELSE FlatMaterial(BoxTone(darkMode))]

Cylinder(texture, darkMode) ==
    [s \in CylinderSlots |-> IF s = "material-0" THEN TexturedMaterial(texture)
                             ELSE FlatMaterial(BoxTone(darkMode))]

Mug(texture, darkMode) ==
    [s \in MugMeshes |-> TintedTexturedMaterial(texture, BoxTone(darkMode))]

Shirt(texture, darkMode) ==
    [s \in ShirtMeshes |-> IF s = ShirtFront THEN TexturedMaterial(texture)
                           ELSE FlatMaterial(ShirtTone(darkMode))]

\* ------------------------------------------------------------------ scene
ObjectType == {"box", "sphere", "cylinder", "mug", "shirt"}
\* The <option> values of the object selector.
Options == {"box", "cylinder", "mug", "shirt"}
Presenters == {"box", "cylinder", "mug", "shirt"}

MugModel == "plain_mug.glb"
ShirtModel == "long_sleeve_t_shirt.glb"
Models == {MugModel, ShirtModel}

\* The model file a presenter loads with useGLTF, if any.
ModelsOf(kind) ==
    IF kind = "mug" THEN {MugModel} ELSE IF kind = "shirt" THEN {ShirtModel} ELSE {}

Presenter(kind, texture, darkMode) ==
    CASE kind = "box" -> Box(texture, darkMode)
      [] kind = "cylinder" -> Cylinder(texture, darkMode)
      [] kind = "mug" -> Mug(texture, darkMode)
      [] kind = "shirt" -> Shirt(texture, darkMode)

\* Scene's texture: textureUrl ? useTexture(textureUrl) : null.
SceneTextureFirstOnly(url) == IF url # Null THEN useTexture(1) ELSE NullTexture
SceneTextureUnguarded(url) == useTexture(url)

SceneTexture(url) == IF url # Null THEN useTexture(url) ELSE NullTexture

\* The presenters Scene's four conditionals render for a selected object.
SceneKindsBoxAlways(sel) == {k \in Presenters : k = sel \/ k = "box"}

SceneKinds(sel) == {k \in Presenters : sel = k}

\* Scene's output: the rendered presenters, each with its materials.
Scene(url, sel, darkMode) ==
    [k \in SceneKinds(sel) |-> Presenter(k, SceneTexture(url), darkMode)]

\* <Scene key={textureUrl} .../>
SceneKeyConstant(url) == Null

SceneKey(url) == url

NoChildren == [k \in {} |-> FlatMaterial(NoColor)]
NoScene == [inst |-> 0, key |-> Null, mountUrl |-> Null, children |-> NoChildren]

\* ---------------------------------------------------------------- loaders
\* What rendering Scene does, given the loaders' caches: a failed load is
\* rethrown as an error, a pending load suspends, otherwise Scene returns.
\* useTexture runs before the presenters (and their useGLTF) render.
RenderOutcome(url, sel, tex, glt) ==
    IF url # Null /\ tex[url] = "failed" THEN "error"
    ELSE IF url # Null /\ tex[url] # "loaded" THEN "suspend"
    ELSE LET need == UNION {ModelsOf(k) : k \in SceneKinds(sel)} IN
         IF \E m \in need : glt[m] = "failed" THEN "error"
         ELSE IF \E m \in need : glt[m] # "loaded" THEN "suspend"
         ELSE "commit"

VARIABLES
    textureUrl,      \* App state: string | null
    selectedObject,  \* App state: ObjectType
    darkMode,        \* App state: boolean
    prefersDark,     \* environment: matchMedia("(prefers-color-scheme: dark)").matches
    objectUrls,      \* browser: object URLs created and never revoked
    textures,        \* useTexture cache: status of the load of each object URL
    gltf,            \* useGLTF cache: status of the load of each model file
    committed,       \* the Scene instance React has committed (kept, hidden, under the fallback)
    fallback,        \* the Suspense boundary is showing its fallback (null)
    crashed,         \* a load error was thrown out of the tree: the root is unmounted
    last,            \* history: the step taken last
    lastFile,        \* history: the file of the last file-picker event
    startupPrefers,  \* history: the environment signal when App was constructed
    toggles,         \* history: parity of the number of theme toggles
    seen             \* history: every value textureUrl held before the current one

vars == <<textureUrl, selectedObject, darkMode, prefersDark, objectUrls, textures, gltf,
          committed, fallback, crashed, last, lastFile, startupPrefers, toggles, seen>>

\* The Suspense fallback is null: while it is shown, or after the root is
\* gone, the subtree presents nothing; otherwise the committed Scene.
SuspenseKeepsOld(isFallback, isCrashed, scene) == IF isCrashed THEN NoScene ELSE scene

Suspense(isFallback, isCrashed, scene) == IF isFallback \/ isCrashed THEN NoScene ELSE scene

Shown == Suspense(fallback, crashed, committed)
ShownKinds == DOMAIN Shown.children

\* The re-render that follows a state update or a settled load.  A Scene
\* element whose key equals the committed instance's key updates that
\* instance in place; any other key unmounts it and mounts a new instance.
Rerender(url, sel, dark, tex, glt) ==
    LET outcome == RenderOutcome(url, sel, tex, glt)
        same == committed.inst # 0 /\ committed.key = SceneKey(url)
    IN  /\ crashed' = (outcome = "error")
        /\ fallback' = (outcome = "suspend")
        /\ committed' =
              CASE outcome = "error" -> NoScene
                [] outcome = "suspend" -> committed
                [] outcome = "commit" ->
                     [inst |-> IF same THEN committed.inst ELSE committed.inst + 1,
                      key |-> SceneKey(url),
                      mountUrl |-> IF same THEN committed.mountUrl ELSE url,
                      children |-> Scene(url, sel, dark)]

History(step, file) ==
    /\ last' = step
    /\ lastFile' = file

Init ==
    /\ textureUrl = Null
    /\ selectedObject = "box"
    /\ prefersDark \in BOOLEAN
    /\ darkMode = prefersDark
    /\ objectUrls = {}
    /\ textures = [u \in Urls |-> "idle"]
    \* useGLTF.preload(...) at module load starts both model loads.
    /\ gltf = [m \in Models |-> "pending"]
    /\ committed = [inst |-> 1, key |-> SceneKey(Null), mountUrl |-> Null,
                    children |-> Scene(Null, "box", prefersDark)]
    /\ fallback = FALSE
    /\ crashed = FALSE
    /\ last = "init"
    /\ lastFile = NoFile
    /\ startupPrefers = prefersDark
    /\ toggles = 0
    /\ seen = {}

\* URL.createObjectURL(file): a URL never handed out before.
createObjectURL(existing) == Cardinality(existing) + 1

\* The textureUrl handleFileChange leaves in state.
NextTextureUrlKeepFirst(file, current, fresh) ==
    IF file.present /\ MatchImage(file.type) /\ current = Null THEN fresh ELSE current

NextTextureUrl(file, current, fresh) ==
    IF file.present /\ MatchImage(file.type) THEN fresh ELSE current

handleFileChange(file) ==
    /\ ~crashed
    /\ LET accepted == file.present /\ MatchImage(file.type)
           fresh == createObjectURL(objectUrls)
           url == NextTextureUrl(file, textureUrl, fresh)
           tex == IF accepted THEN [textures EXCEPT ![fresh] = "pending"] ELSE textures
       IN  /\ accepted => fresh \in Urls
           /\ textureUrl' = url
           /\ objectUrls' = IF accepted THEN objectUrls \cup {fresh} ELSE objectUrls
           /\ textures' = tex
           /\ seen' = IF url # textureUrl THEN seen \cup {textureUrl} ELSE seen
           /\ Rerender(url, selectedObject, darkMode, tex, gltf)
    /\ History("file", file)
    /\ UNCHANGED <<selectedObject, darkMode, prefersDark, gltf, startupPrefers, toggles>>

handleObjectChange(value) ==
    /\ ~crashed
    /\ selectedObject' = value
    /\ Rerender(textureUrl, value, darkMode, textures, gltf)
    /\ History("select", NoFile)
    /\ UNCHANGED <<textureUrl, darkMode, prefersDark, objectUrls, textures, gltf,
                   startupPrefers, toggles, seen>>

NextDarkModeSetDark(dark) == TRUE

NextDarkMode(dark) == ~dark

toggleDarkMode ==
    /\ ~crashed
    /\ darkMode' = NextDarkMode(darkMode)
    /\ Rerender(textureUrl, selectedObject, darkMode', textures, gltf)
    /\ toggles' = (toggles + 1) % 2
    /\ History("toggle", NoFile)
    /\ UNCHANGED <<textureUrl, selectedObject, prefersDark, objectUrls, textures, gltf,
                   startupPrefers, seen>>

\* The user or the system changes the preferred colour scheme.  App reads
\* the signal only in the useState initialiser and registers no listener.
PreferenceChange ==
    /\ prefersDark' = ~prefersDark
    /\ History("env", NoFile)
    /\ UNCHANGED <<textureUrl, selectedObject, darkMode, objectUrls, textures, gltf,
                   committed, fallback, crashed, startupPrefers, toggles, seen>>

\* The texture loader settles the load of object URL u.
TextureSettles(u, result) ==
    /\ ~crashed
    /\ textures[u] = "pending"
    /\ textures' = [textures EXCEPT ![u] = result]
    /\ Rerender(textureUrl, selectedObject, darkMode, textures', gltf)
    /\ History("load", NoFile)
    /\ UNCHANGED <<textureUrl, selectedObject, darkMode, prefersDark, objectUrls, gltf,
                   startupPrefers, toggles, seen>>

\* The GLTF loader settles the load of model file m.
ModelSettles(m, result) ==
    /\ ~crashed
    /\ gltf[m] = "pending"
    /\ gltf' = [gltf EXCEPT ![m] = result]
    /\ Rerender(textureUrl, selectedObject, darkMode, textures, gltf')
    /\ History("load", NoFile)
    /\ UNCHANGED <<textureUrl, selectedObject, darkMode, prefersDark, objectUrls, textures,
                   startupPrefers, toggles, seen>>

Next ==
    \/ \E file \in Files : handleFileChange(file)
    \/ \E value \in Options : handleObjectChange(value)
    \/ toggleDarkMode
    \/ PreferenceChange
    \/ \E u \in Urls, result \in {"loaded", "failed"} : TextureSettles(u, result)
    \/ \E m \in Models, result \in {"loaded", "failed"} : ModelSettles(m, result)

Spec == Init /\ [][Next]_vars

Steps == {"init", "file", "select", "toggle", "env", "load"}
Statuses == {"idle", "pending", "loaded", "failed"}

TypeOK ==
    /\ textureUrl \in Urls \cup {Null}
    /\ selectedObject \in ObjectType
    /\ darkMode \in BOOLEAN
    /\ prefersDark \in BOOLEAN
    /\ objectUrls \subseteq Urls
    /\ textures \in [Urls -> Statuses]
    /\ gltf \in [Models -> Statuses]
    /\ fallback \in BOOLEAN
    /\ crashed \in BOOLEAN
    /\ last \in Steps
    /\ lastFile \in Files
    /\ toggles \in {0, 1}
    /\ seen \subseteq Urls \cup {Null}

\* ================================================================ claims
Materials(kind) == Shown.children[kind]
TextureBound(kind) == {r \in DOMAIN Materials(kind) : Materials(kind)[r].hasMap}
FlatColored(kind) == {r \in DOMAIN Materials(kind) : ~Materials(kind)[r].hasMap}

\* A media type of the form image/<subtype>.
IMAGE_SLASH == IMAGE \o <<"/">>
IsImageType(t) == Len(t) > 6 /\ SubSeq(t, 1, 6) = IMAGE_SLASH

\* Some load the current render needs is pending / has failed.
NeededPending ==
    \/ textureUrl # Null /\ textures[textureUrl] = "pending"
    \/ \E m \in ModelsOf(selectedObject) : gltf[m] = "pending"
NeededFailed ==
    \/ textureUrl # Null /\ textures[textureUrl] = "failed"
    \/ \E m \in ModelsOf(selectedObject) : gltf[m] = "failed"
NeededLoaded ==
    /\ textureUrl # Null => textures[textureUrl] = "loaded"
    /\ \A m \in ModelsOf(selectedObject) : gltf[m] = "loaded"

\* C1: at most one presenter is ever shown and it is the one of the selected
\* object; once the loads the render needs have resolved, exactly one
\* presenter is shown, the one matching selectedObject.
C1_ExactlyOnePresenter ==
    /\ ShownKinds \subseteq {selectedObject}
    /\ NeededLoaded => (Cardinality(ShownKinds) = 1 /\ ShownKinds = {selectedObject})

C1_Witness ==
    /\ last = "select"
    /\ selectedObject = "shirt"
    /\ ShownKinds = {"shirt"}
    /\ textureUrl # Null

\* C2: a file-picker event with a file of type image/<subtype> leaves in
\* textureUrl an object URL that differs from the previous textureUrl and
\* from every earlier one; the previous value is superseded.
C2_UploadReplaces ==
    [][(last' = "file" /\ lastFile'.present /\ IsImageType(lastFile'.type))
         => /\ textureUrl' \in Urls
            /\ textureUrl' \notin (seen \cup {textureUrl})
            /\ seen' = seen \cup {textureUrl}]_vars

C2_Witness ==
    /\ last = "file"
    /\ lastFile.present /\ IsImageType(lastFile.type)
    /\ textureUrl = 2
    /\ seen = {Null, 1}

\* C3: a file-picker event with no file, or with a file whose type is not of
\* the form image/<subtype>, leaves textureUrl, selectedObject and darkMode
\* as they were and reaches no error state.
C3_NonImageIgnored ==
    [][(last' = "file" /\ ~(lastFile'.present /\ IsImageType(lastFile'.type)))
         => /\ UNCHANGED <<textureUrl, selectedObject, darkMode>>
            /\ ~crashed']_vars

\* C4: a theme toggle leaves selectedObject, textureUrl and the Scene key
\* and instance as they were, and gives every flat-coloured region of the
\* shown presenter a colour different from the one it had.
C4_ToggleChangesFlatTones ==
    [][last' = "toggle"
         => /\ selectedObject' = selectedObject
            /\ textureUrl' = textureUrl
            /\ SceneKey(textureUrl') = SceneKey(textureUrl)
            /\ ShownKinds' = ShownKinds
            /\ Shown'.inst = Shown.inst
            /\ \A k \in ShownKinds : \A r \in FlatColored(k) :
                  /\ r \in DOMAIN Shown'.children[k]
                  /\ ~Shown'.children[k][r].hasMap
                  /\ ColorValue(Shown'.children[k][r].color)
                        # ColorValue(Shown.children[k][r].color)]_vars

C4_Witness ==
    /\ last = "toggle"
    /\ ShownKinds = {"shirt"}
    /\ textureUrl # Null

\* C5: a shown presenter always belongs to a Scene instance mounted for the
\* current textureUrl; a step that changes textureUrl ends the instance that
\* was committed before it; a theme toggle never changes the instance.
C5_RemountOnTextureChange ==
    [][/\ Shown'.inst # 0 => Shown'.mountUrl = textureUrl'
       /\ textureUrl' # textureUrl => Shown'.inst # committed.inst
       /\ last' = "toggle" => Shown'.inst = Shown.inst]_vars

C5_Witness ==
    /\ textureUrl = 2
    /\ Shown.inst = 3
    /\ Shown.mountUrl = 2
    /\ ShownKinds # {}

\* C6: every material of the shown presenter that is bound to the texture
\* holds the texture resolved from the current textureUrl, and no shown
\* material holds the texture of an earlier upload.
C6_NoStaleTexture ==
    \A k \in ShownKinds : \A r \in DOMAIN Materials(k) :
        /\ Materials(k)[r].hasMap =>
              Materials(k)[r].map = (IF textureUrl = Null THEN NullTexture ELSE <<textureUrl>>)
        /\ \A u \in seen \ {Null} : Materials(k)[r].map # <<u>>

C6_Witness ==
    /\ textureUrl = 2
    /\ 1 \in seen
    /\ ShownKinds = {"box"}
    /\ Materials("box")["material-4"].map = <<2>>

\* C7: textureUrl is null exactly as long as no upload has been accepted,
\* and the texture-bound regions of the shown presenter have a null map
\* exactly in those states, whatever the theme.
C7_NoTextureNoImage ==
    /\ textureUrl = Null <=> objectUrls = {}
    /\ \A k \in ShownKinds :
          /\ TextureBound(k) # {}
          /\ \A r \in TextureBound(k) :
                Materials(k)[r].map = NullTexture <=> objectUrls = {}

C7_Witness ==
    /\ textureUrl = Null
    /\ darkMode
    /\ ShownKinds = {"mug"}

\* C8: the shown presenter assigns its regions as the table says: box one
\* textured face and five flat ones, cylinder the side textured and the two
\* caps flat, mug its one mesh textured over a tinted base and nothing flat,
\* shirt the front panel textured and the other sub-meshes flat; a shirt
\* shown in light mode before any upload has an untextured front panel and
\* the light tint on the other sub-meshes.
C8_RegionTable ==
    /\ "box" \in ShownKinds =>
          /\ Cardinality(TextureBound("box")) = 1
          /\ Cardinality(FlatColored("box")) = 5
    /\ "cylinder" \in ShownKinds =>
          /\ TextureBound("cylinder") = {"material-0"}
          /\ Cardinality(FlatColored("cylinder")) = 2
    /\ "mug" \in ShownKinds =>
          /\ TextureBound("mug") = DOMAIN Materials("mug")
          /\ FlatColored("mug") = {}
          /\ \A r \in TextureBound("mug") : Materials("mug")[r].hasColor
    /\ "shirt" \in ShownKinds =>
          /\ TextureBound("shirt") = {ShirtFront}
          /\ Cardinality(FlatColored("shirt")) = 3
          /\ (textureUrl = Null /\ ~darkMode) =>
                /\ Materials("shirt")[ShirtFront].map = NullTexture
                /\ \A r \in FlatColored("shirt") :
                      ColorValue(Materials("shirt")[r].color) = <<255, 255, 255>>
    /\ \A k \in ShownKinds : \A r \in FlatColored(k) :
          /\ Materials(k)[r].hasColor
          /\ Materials(k)[r].color \in {BoxTone(darkMode), ShirtTone(darkMode)}

C8_Witness ==
    /\ last = "select"
    /\ ShownKinds = {"shirt"}
    /\ objectUrls = {}
    /\ ~darkMode
    /\ toggles = 0

\* C9: darkMode is the environment signal read at startup, flipped once per
\* toggle; no step other than a toggle changes it, and every toggle does.
C9_ThemeSeedAndToggle ==
    /\ [](darkMode = (IF toggles = 0 THEN startupPrefers ELSE ~startupPrefers))
    /\ [][(darkMode' # darkMode) <=> (last' = "toggle")]_vars

C9_Witness ==
    /\ last = "toggle"
    /\ toggles = 0
    /\ prefersDark # startupPrefers
    /\ objectUrls # {}
    /\ selectedObject # "box"

\* C10: while a load the render needs is pending nothing is shown; unless
\* another needed load has failed, the boundary shows its fallback, no error
\* state is entered and the handlers still accept updates.
C10_PendingShowsNothing ==
    NeededPending =>
        /\ ShownKinds = {}
        /\ ~NeededFailed =>
              /\ fallback
              /\ ~crashed
              /\ ENABLED toggleDarkMode
              /\ \A v \in Options : ENABLED handleObjectChange(v)

C10_Witness ==
    /\ fallback
    /\ textureUrl = 2
    /\ textures[2] = "pending"
    /\ committed.mountUrl = 1
    /\ last = "toggle"

====
